---- MODULE Spec2Model ----
(***************************************************************************)
(* A model of awsCloud.py: the interactive menu of main(), the handlers    *)
(* it dispatches to, and condor_status with run_command_on_instance.       *)
(*                                                                         *)
(* The program's own state is its position (pc), the locals that survive   *)
(* from one step to the next, and its exit status.  The environment is the *)
(* user's input lines, the outcome of every SDK call (a response or an     *)
(* exception) and the progress of the remote command on each instance.     *)
(* trace is the history of what the current pass of the menu loop did:     *)
(* its prints, its SDK client creations, its API calls and its sleeps.     *)
(*                                                                         *)
(* Text is a sequence of one-character strings.  "sup2" stands for the     *)
(* single character U+00B2 (SUPERSCRIPT TWO), which str.isdigit() accepts  *)
(* and int() rejects.  Not modelled: end of input on stdin, a keyboard     *)
(* interrupt, a failing print, digit strings beyond int()'s length limit.  *)
(***************************************************************************)
EXTENDS Integers, Sequences, FiniteSets

VARIABLES pc, exitCode, line, choice, fn, entered, arg, trace,
          ids, idx, ssm, result, output

vars == <<pc, exitCode, line, choice, fn, entered, arg, trace,
          ids, idx, ssm, result, output>>

\* ------------------------------------------------------------------ bounds
MaxLineLen == 2
MaxIdLen == 3
NumInstances == 2
MaxOut == 1

\* ------------------------------------------------------------- characters
DecimalDigits == {"0", "1", "2", "3", "4", "5", "6", "7", "8", "9"}
OtherDigits == {"sup2"}
DigitChars == DecimalDigits \cup OtherDigits
Whitespace == {" "}
MenuChars == DigitChars \cup Whitespace \cup {"x"}
IdChars == Whitespace \cup {"a", "b"}

StringsOver(S, n) == UNION {[1..k -> S] : k \in 0..n}
Lines == StringsOver(MenuChars, MaxLineLen)
IdLines == StringsOver(IdChars, MaxIdLen)

\* ------------------------------------------------------ str and int built-ins
RECURSIVE LStrip(_)
LStrip(s) == IF Len(s) > 0 /\ s[1] \in Whitespace
             THEN LStrip(SubSeq(s, 2, Len(s))) ELSE s

RECURSIVE RStrip(_)
RStrip(s) == IF Len(s) > 0 /\ s[Len(s)] \in Whitespace
             THEN RStrip(SubSeq(s, 1, Len(s) - 1)) ELSE s

\* A strip that removes leading whitespace only (str.lstrip).
stripLeadingOnly(s) == LStrip(s)

strip(s) == RStrip(LStrip(s))

isdigit(s) == Len(s) > 0 /\ \A i \in 1..Len(s) : s[i] \in DigitChars

DigitVal(c) == CASE c = "0" -> 0 [] c = "1" -> 1 [] c = "2" -> 2 [] c = "3" -> 3
                 [] c = "4" -> 4 [] c = "5" -> 5 [] c = "6" -> 6 [] c = "7" -> 7
                 [] c = "8" -> 8 [] c = "9" -> 9

\* int(s) raises ValueError unless s, stripped, is a non-empty run of decimal digits
\* (a sign or an underscore cannot reach it: no such line passes isdigit).
intRaises(s) == LET t == strip(s)
                IN ~(Len(t) > 0 /\ \A i \in 1..Len(t) : t[i] \in DecimalDigits)

RECURSIVE DecimalValue(_)
DecimalValue(t) == IF Len(t) = 0 THEN 0
                   ELSE 10 * DecimalValue(SubSeq(t, 1, Len(t) - 1)) + DigitVal(t[Len(t)])

int(s) == DecimalValue(strip(s))

\* ----------------------------------------------------------------- events
NoArg == <<>>
NoExc == ""
NoResult == [Status |-> "None", StandardOutputContent |-> <<>>]
EvR(k, w, a, e, r) == [kind |-> k, what |-> w, arg |-> a, exc |-> e, resp |-> r]
Ev(k, w, a, e) == EvR(k, w, a, e, NoResult)
Pr(w, a) == Ev("print", w, a, NoExc)
Api(op, a, e) == Ev("api", op, a, e)
Client(svc, a, e) == Ev("client", svc, a, e)
Input(prompt, l) == Ev("input", prompt, l, NoExc)

\* The outcomes of one SDK call: a response, or an exception.
ApiOutcomes == {NoExc, "ClientError"}
CredentialErrors == {"NoCredentialsError", "PartialCredentialsError"}
ClientOutcomes == {NoExc} \cup CredentialErrors \cup {"ProfileNotFound"}

\* --------------------------------------------------------------- the menu
Handler(c) ==
    CASE c = 1 -> "list_instances"
      [] c = 2 -> "available_zones"
      [] c = 3 -> "start_instance"
      [] c = 4 -> "available_regions"
      [] c = 5 -> "stop_instance"
      [] c = 6 -> "create_instance"
      [] c = 7 -> "reboot_instance"
      [] c = 8 -> "list_images"
      [] c = 9 -> "condor_status"
      [] c = 99 -> "quit"
      [] OTHER -> "invalid"

NeedsArg(h) == h \in {"start_instance", "stop_instance", "create_instance", "reboot_instance"}

NoChoice == -1
NoCmd == [status |-> "None", final |-> <<>>, done |-> 0]
NoOutput == [none |-> TRUE, val |-> <<>>]

\* The locals of one pass of the loop are dead at its top: every one is assigned
\* before it is read again.
Locals == <<line, choice, fn, entered, arg, ids, idx, ssm, result, output>>

AllNames == <<"i1", "i2", "i3", "i4">>
InstanceIds == {<<AllNames[n]>> : n \in 1..NumInstances}

ResetLocals ==
    /\ line' = <<>>
    /\ choice' = NoChoice
    /\ fn' = ""
    /\ entered' = <<>>
    /\ arg' = NoArg
    /\ ids' = <<>>
    /\ idx' = 0
    /\ ssm' = [i \in InstanceIds |-> NoCmd]
    /\ result' = NoResult
    /\ output' = NoOutput

Init ==
    /\ pc = "init"
    /\ exitCode = -1
    /\ line = <<>>
    /\ choice = NoChoice
    /\ fn = ""
    /\ entered = <<>>
    /\ arg = NoArg
    /\ trace = <<>>
    /\ ids = <<>>
    /\ idx = 0
    /\ ssm = [i \in InstanceIds |-> NoCmd]
    /\ result = NoResult
    /\ output = NoOutput

\* An exception no handler catches ends the process with a traceback, status 1.
Uncaught(events) ==
    /\ trace' = trace \o events
    /\ pc' = "crashed"
    /\ exitCode' = 1

\* init() with the sys.exit(1) left out: the credentials error is printed and main goes on.
initNoExit ==
    /\ pc = "init"
    /\ \E e \in ClientOutcomes :
         IF e = NoExc \/ e \in CredentialErrors
         THEN /\ trace' = trace \o <<Client("ec2", NoArg, e)>>
                            \o (IF e = NoExc THEN <<>> ELSE <<Pr("cannot_load_credentials", NoArg)>>)
              /\ pc' = "loop"
              /\ exitCode' = exitCode
         ELSE Uncaught(<<Client("ec2", NoArg, e)>>)
    /\ UNCHANGED Locals

\* init(): create the EC2 client; a credentials error exits with status 1.
init ==
    /\ pc = "init"
    /\ \E e \in ClientOutcomes :
         IF e = NoExc
         THEN /\ trace' = Append(trace, Client("ec2", NoArg, e))
              /\ pc' = "loop"
              /\ exitCode' = exitCode
         ELSE IF e \in CredentialErrors
         THEN /\ trace' = trace \o <<Client("ec2", NoArg, e), Pr("cannot_load_credentials", NoArg)>>
              /\ pc' = "exited"
              /\ exitCode' = 1
         ELSE Uncaught(<<Client("ec2", NoArg, e)>>)
    /\ UNCHANGED Locals

\* The top of the while loop: print the menu.
ShowMenu ==
    /\ pc = "loop"
    /\ trace' = <<Pr("menu", NoArg)>>
    /\ pc' = "input"
    /\ ResetLocals
    /\ UNCHANGED exitCode

\* input("Enter an integer: "), the digit check, int() and the dispatch.
ReadChoice ==
    /\ pc = "input"
    /\ \E l \in Lines :
         /\ line' = l
         /\ IF ~isdigit(l)
            THEN /\ trace' = trace \o <<Input("choice", l), Pr("invalid_input", NoArg)>>
                 /\ pc' = "loop"
                 /\ UNCHANGED <<exitCode, choice, fn>>
            ELSE IF intRaises(l)
            THEN /\ Uncaught(<<Input("choice", l), Ev("raise", "int", l, "ValueError")>>)
                 /\ UNCHANGED <<choice, fn>>
            ELSE /\ choice' = int(l)
                 /\ fn' = Handler(int(l))
                 /\ IF fn' = "quit"
                    THEN /\ trace' = trace \o <<Input("choice", l), Pr("goodbye", NoArg)>>
                         /\ pc' = "done"
                         /\ exitCode' = 0
                    ELSE IF fn' = "invalid"
                    THEN /\ trace' = trace \o <<Input("choice", l), Pr("invalid_choice", NoArg)>>
                         /\ pc' = "loop"
                         /\ UNCHANGED exitCode
                    ELSE /\ pc' = IF NeedsArg(fn') THEN "ask"
                                  ELSE IF fn' = "condor_status" THEN "condor"
                                  ELSE "call"
                         /\ trace' = Append(trace, Input("choice", l))
                         /\ UNCHANGED exitCode
    /\ UNCHANGED <<entered, arg, ids, idx, ssm, result, output>>

\* input("Enter instance ID: ").strip() / input("Enter AMI ID: ").strip()
AskId ==
    /\ pc = "ask"
    /\ \E s \in IdLines :
         /\ entered' = s
         /\ arg' = strip(s)
         /\ trace' = Append(trace, Input("id", s))
         /\ pc' = IF Len(strip(s)) > 0 THEN "call" ELSE "loop"
    /\ UNCHANGED <<exitCode, line, choice, fn, ids, idx, ssm, result, output>>

\* A handler whose SDK call sits in try/except Exception: the exception is printed
\* and the handler returns to the loop.
Guarded(before, op, a, after, errmsg) ==
    /\ \E e \in ApiOutcomes :
         trace' = trace \o before \o <<Api(op, a, e)>>
                    \o (IF e = NoExc THEN after ELSE <<Pr(errmsg, NoArg)>>)
    /\ pc' = "loop"
    /\ UNCHANGED exitCode

\* The same handler without the try/except: the exception leaves main().
Unguarded(before, op, a, after) ==
    \E e \in ApiOutcomes :
        IF e = NoExc
        THEN /\ trace' = trace \o before \o <<Api(op, a, e)>> \o after
             /\ pc' = "loop"
             /\ UNCHANGED exitCode
        ELSE Uncaught(before \o <<Api(op, a, e)>>)

list_instances ==
    /\ pc = "call" /\ fn = "list_instances"
    /\ Unguarded(<<Pr("listing_instances", NoArg)>>, "describe_instances", NoArg,
                 <<Pr("instance_rows", NoArg)>>)
    /\ UNCHANGED Locals

available_zones ==
    /\ pc = "call" /\ fn = "available_zones"
    /\ Guarded(<<Pr("available_zones", NoArg)>>, "describe_availability_zones", NoArg,
               <<Pr("zone_rows", NoArg), Pr("zone_count", NoArg)>>, "error")
    /\ UNCHANGED Locals

\* start_instance issuing its call twice.
start_instanceTwice ==
    /\ pc = "call" /\ fn = "start_instance"
    /\ Guarded(<<Pr("starting", arg), Api("start_instances", arg, NoExc)>>,
               "start_instances", arg, <<Pr("started", arg)>>, "error")
    /\ UNCHANGED Locals

start_instance ==
    /\ pc = "call" /\ fn = "start_instance"
    /\ Guarded(<<Pr("starting", arg)>>, "start_instances", arg,
               <<Pr("started", arg)>>, "error")
    /\ UNCHANGED Locals

stop_instance ==
    /\ pc = "call" /\ fn = "stop_instance"
    /\ Guarded(<<Pr("stopping", arg)>>, "stop_instances", arg,
               <<Pr("stopped", arg)>>, "error")
    /\ UNCHANGED Locals

reboot_instance ==
    /\ pc = "call" /\ fn = "reboot_instance"
    /\ Guarded(<<Pr("rebooting", arg)>>, "reboot_instances", arg,
               <<Pr("rebooted", arg)>>, "error")
    /\ UNCHANGED Locals

available_regions ==
    /\ pc = "call" /\ fn = "available_regions"
    /\ Guarded(<<Pr("available_regions", NoArg)>>, "describe_regions", NoArg,
               <<Pr("region_rows", NoArg)>>, "error")
    /\ UNCHANGED Locals

create_instance ==
    /\ pc = "call" /\ fn = "create_instance"
    /\ Guarded(<<Pr("creating", arg)>>, "run_instances", arg,
               <<Pr("created", arg)>>, "error")
    /\ UNCHANGED Locals

\* The response holds images, or none ("No images found.").
list_images ==
    /\ pc = "call" /\ fn = "list_images"
    /\ \E found \in BOOLEAN :
         Guarded(<<Pr("listing_images", NoArg)>>, "describe_images", NoArg,
                 <<Pr(IF found THEN "image_rows" ELSE "no_images_found", NoArg)>>,
                 "error_listing_images")
    /\ UNCHANGED Locals

\* ---------------------------------------------------------- condor_status
\* What describe_instances(Filters=running) can list: instance ids, each once.
Listings == {l \in StringsOver(InstanceIds, NumInstances) :
               \A i, j \in 1..Len(l) : l[i] = l[j] => i = j}

\* The standard output a remote command can end with, in chunks.
Outputs == StringsOver({"o"}, MaxOut)

\* What the service holds of a command's output so far.
Stdout(c) == SubSeq(c.final, 1, c.done)

Finished == {"Success", "Failed"}

InCondor == pc \in {"c_list", "c_for", "c_client", "c_send", "c_sleep", "c_fetch", "c_report"}

\* condor_status, entry: its own EC2 client, outside any try.
condor_status ==
    /\ pc = "condor"
    /\ \E e \in ClientOutcomes :
         IF e = NoExc
         THEN /\ trace' = trace \o <<Client("ec2", NoArg, e), Pr("fetching_running", NoArg)>>
              /\ pc' = "c_list"
              /\ UNCHANGED exitCode
         ELSE Uncaught(<<Client("ec2", NoArg, e)>>)
    /\ UNCHANGED Locals

\* get_running_instances and the empty-list return; the call is outside any try.
get_running_instances ==
    /\ pc = "c_list"
    /\ \E e \in ApiOutcomes :
         IF e # NoExc
         THEN /\ Uncaught(<<Api("describe_instances", NoArg, e)>>)
              /\ UNCHANGED <<ids, idx>>
         ELSE \E l \in Listings :
                /\ ids' = l
                /\ idx' = 1
                /\ UNCHANGED exitCode
                /\ IF Len(l) = 0
                   THEN /\ trace' = trace \o <<Api("describe_instances", NoArg, e),
                                               Pr("no_running_instances", NoArg)>>
                        /\ pc' = "loop"
                   ELSE /\ trace' = trace \o <<Api("describe_instances", NoArg, e),
                                               Pr("found_running", NoArg)>>
                        /\ pc' = "c_for"
    /\ UNCHANGED <<line, choice, fn, entered, arg, ssm, result, output>>

\* for instance_id in instance_ids: the next instance, or the end of the loop.
ForNext ==
    /\ pc = "c_for"
    /\ IF idx > Len(ids)
       THEN /\ pc' = "loop"
            /\ UNCHANGED trace
       ELSE /\ pc' = "c_client"
            /\ trace' = Append(trace, Pr("running_on", ids[idx]))
    /\ UNCHANGED <<exitCode, Locals>>

\* The SSM client created with no try around the loop body: its exception leaves main().
SsmClientUncaught ==
    /\ pc = "c_client"
    /\ \E e \in ClientOutcomes :
         IF e = NoExc
         THEN /\ trace' = Append(trace, Client("ssm", ids[idx], e))
              /\ pc' = "c_send"
              /\ UNCHANGED exitCode
         ELSE Uncaught(<<Client("ssm", ids[idx], e)>>)
    /\ result' = NoResult
    /\ UNCHANGED <<line, choice, fn, entered, arg, ids, idx, ssm, output>>

\* run_command_on_instance, line 134: the SSM client, created outside the function's
\* try; its exception reaches the except of condor_status's loop body.
SsmClient ==
    /\ pc = "c_client"
    /\ \E e \in ClientOutcomes :
         IF e = NoExc
         THEN /\ trace' = Append(trace, Client("ssm", ids[idx], e))
              /\ pc' = "c_send"
              /\ idx' = idx
         ELSE /\ trace' = trace \o <<Client("ssm", ids[idx], e),
                                     Pr("error_processing", ids[idx])>>
              /\ pc' = "c_for"
              /\ idx' = idx + 1
    /\ result' = NoResult
    /\ UNCHANGED <<exitCode, line, choice, fn, entered, arg, ids, ssm, output>>

\* A send_command that returns without waiting for the invocation result.
SendCommandNoWait ==
    /\ pc = "c_send"
    /\ \E e \in ApiOutcomes :
         /\ trace' = trace \o <<Api("send_command", ids[idx], e),
                                Pr(IF e = NoExc THEN "command_sent" ELSE "error_occurred", NoArg)>>
         /\ IF e = NoExc
            THEN \E f \in Outputs :
                   ssm' = [ssm EXCEPT ![ids[idx]] = [status |-> "Pending", final |-> f, done |-> 0]]
            ELSE ssm' = ssm
    /\ pc' = "c_for"
    /\ idx' = idx + 1
    /\ output' = NoOutput
    /\ UNCHANGED <<exitCode, line, choice, fn, entered, arg, ids, result>>

\* ssm_client.send_command: a new command, pending on the instance.
SendCommand ==
    /\ pc = "c_send"
    /\ \E e \in ApiOutcomes :
         IF e = NoExc
         THEN /\ \E f \in Outputs :
                   ssm' = [ssm EXCEPT ![ids[idx]] = [status |-> "Pending", final |-> f, done |-> 0]]
              /\ trace' = trace \o <<Api("send_command", ids[idx], e), Pr("command_sent", NoArg)>>
              /\ pc' = "c_sleep"
              /\ output' = output
         ELSE /\ trace' = trace \o <<Api("send_command", ids[idx], e), Pr("error_occurred", NoArg)>>
              /\ pc' = "c_report"
              /\ output' = NoOutput
              /\ ssm' = ssm
    /\ UNCHANGED <<exitCode, line, choice, fn, entered, arg, ids, idx, result>>

\* time.sleep(2)
Sleep ==
    /\ pc = "c_sleep"
    /\ trace' = Append(trace, Ev("sleep", "time.sleep", ids[idx], NoExc))
    /\ pc' = "c_fetch"
    /\ UNCHANGED <<exitCode, Locals>>

\* What get_command_invocation answers for a command: its status and its output so far.
Invocation(c) == [Status |-> c.status, StandardOutputContent |-> Stdout(c)]

\* A fetch that polls: after an exception it sleeps and reads the invocation again.
FetchRetry ==
    /\ pc = "c_fetch"
    /\ \E e \in ApiOutcomes :
         IF e = NoExc
         THEN /\ result' = Invocation(ssm[ids[idx]])
              /\ trace' = trace \o <<EvR("api", "get_command_invocation", ids[idx], e, result'),
                                     Pr("command_output_from", ids[idx])>>
              /\ output' = [none |-> FALSE, val |-> result'.StandardOutputContent]
              /\ pc' = "c_report"
         ELSE /\ result' = result
              /\ trace' = trace \o <<Api("get_command_invocation", ids[idx], e)>>
              /\ output' = output
              /\ pc' = "c_sleep"
    /\ UNCHANGED <<exitCode, line, choice, fn, entered, arg, ids, idx, ssm>>

\* ssm_client.get_command_invocation, once, and the return of StandardOutputContent.
Fetch ==
    /\ pc = "c_fetch"
    /\ \E e \in ApiOutcomes :
         IF e = NoExc
         THEN /\ result' = Invocation(ssm[ids[idx]])
              /\ trace' = trace \o <<EvR("api", "get_command_invocation", ids[idx], e, result'),
                                     Pr("command_output_from", ids[idx])>>
              /\ output' = [none |-> FALSE, val |-> result'.StandardOutputContent]
         ELSE /\ result' = result
              /\ trace' = trace \o <<Api("get_command_invocation", ids[idx], e),
                                     Pr("error_occurred", NoArg)>>
              /\ output' = NoOutput
    /\ pc' = "c_report"
    /\ UNCHANGED <<exitCode, line, choice, fn, entered, arg, ids, idx, ssm>>

\* The test written as "output is not None": an empty output counts as a status.
TruthyNotNone(o) == ~o.none

\* Python's truth value of the returned output: None and "" are false.
Truthy(o) == ~o.none /\ Len(o.val) > 0

\* if output: ... else: ...  The command id is dropped here: its invocation is
\* never read again.
Report ==
    /\ pc = "c_report"
    /\ trace' = trace \o
         (IF Truthy(output)
          THEN <<Pr("condor_status_for", ids[idx]),
                 EvR("print", "output", ids[idx], NoExc,
                     [Status |-> "None", StandardOutputContent |-> output.val])>>
          ELSE <<Pr("failed_to_retrieve", ids[idx])>>)
    /\ ssm' = [ssm EXCEPT ![ids[idx]] = NoCmd]
    /\ idx' = idx + 1
    /\ pc' = "c_for"
    /\ UNCHANGED <<exitCode, line, choice, fn, entered, arg, ids, result, output>>

\* The instance runs the command: pending, in progress with its output growing,
\* then finished with all of it, or failed with what it had written.
RemoteProgress ==
    /\ InCondor
    /\ \E i \in InstanceIds :
         LET c == ssm[i] IN
         \/ /\ c.status = "Pending"
            /\ ssm' = [ssm EXCEPT ![i].status = "InProgress"]
         \/ /\ c.status = "InProgress" /\ c.done < Len(c.final)
            /\ ssm' = [ssm EXCEPT ![i].done = c.done + 1]
         \/ /\ c.status = "InProgress" /\ c.done = Len(c.final)
            /\ ssm' = [ssm EXCEPT ![i].status = "Success"]
         \/ /\ c.status = "InProgress" /\ c.done < Len(c.final)
            /\ ssm' = [ssm EXCEPT ![i] = [status |-> "Failed", final |-> Stdout(c), done |-> c.done]]
    /\ UNCHANGED <<pc, exitCode, line, choice, fn, entered, arg, trace, ids, idx, result, output>>

Next ==
    \/ init \/ ShowMenu \/ ReadChoice \/ AskId
    \/ list_instances \/ available_zones \/ start_instance \/ stop_instance
    \/ reboot_instance \/ available_regions \/ create_instance \/ list_images
    \/ condor_status \/ get_running_instances \/ ForNext \/ SsmClient
    \/ SendCommand \/ Sleep \/ Fetch \/ Report \/ RemoteProgress

Spec == Init /\ [][Next]_vars

\* ------------------------------------------------------- reading the trace
Pos == 1..Len(trace)
IsApi(e) == e.kind = "api"
ApiCalls == SelectSeq(trace, IsApi)
Sends(i) == Cardinality({p \in Pos : IsApi(trace[p]) /\ trace[p].what = "send_command"
                                      /\ trace[p].arg = i})
Fetches(i) == Cardinality({p \in Pos : IsApi(trace[p]) /\ trace[p].what = "get_command_invocation"
                                        /\ trace[p].arg = i})
Printed(w, i) == \E p \in Pos : trace[p].kind = "print" /\ trace[p].what = w /\ trace[p].arg = i
HasRead == \E p \in Pos : trace[p].kind = "input" /\ trace[p].what = "choice"
ListingSucceeded == \E p \in Pos : IsApi(trace[p]) /\ trace[p].what = "describe_instances"
                                      /\ trace[p].exc = NoExc /\ fn = "condor_status"

\* ------------------------------------------------------------------ claims

\* C1: whenever an external API call made while handling a menu choice raised an
\* exception, the exception was caught and printed and the process goes on: it has
\* not terminated.
C1_EveryExceptionCaught ==
    \A p \in Pos :
        IsApi(trace[p]) /\ trace[p].exc # NoExc
        => /\ pc \notin {"crashed", "exited", "done"}
           /\ \E q \in Pos : q > p /\ trace[q].kind = "print"
                 /\ trace[q].what \in {"error", "error_listing_images", "error_occurred"}

\* C2: whenever run_command_on_instance returns a value other than None, the remote
\* command had finished when its result was fetched and the value is the command's
\* final standard output.
C2_ReturnsFinishedOutput ==
    pc = "c_report" /\ ~output.none
    => /\ result.Status \in Finished
       /\ output.val = ssm[ids[idx]].final

\* Every fetch for instance i comes after a send for i and a sleep between the two.
FetchAfterSendAndDelay(i) ==
    \A q \in Pos :
        IsApi(trace[q]) /\ trace[q].what = "get_command_invocation" /\ trace[q].arg = i
        => \E p, d \in Pos :
              /\ p < d /\ d < q
              /\ IsApi(trace[p]) /\ trace[p].what = "send_command" /\ trace[p].arg = i
              /\ trace[d].kind = "sleep" /\ trace[d].arg = i

Listed == {ids[k] : k \in 1..Len(ids)}

NeverRepeated ==
    \A i \in InstanceIds :
        /\ Sends(i) <= 1
        /\ Fetches(i) <= 1
        /\ FetchAfterSendAndDelay(i)
        /\ (Sends(i) > 0 => i \in Listed)

SsmClientCreated(i) ==
    \E p \in Pos : trace[p].kind = "client" /\ trace[p].what = "ssm"
                     /\ trace[p].arg = i /\ trace[p].exc = NoExc

\* C3, as stated: in one execution of condor_status every listed instance gets exactly
\* one send_command and at most one get_command_invocation, the fetch after the send
\* and its delay, nothing repeated, and no send at all for an empty listing.
C3_ExactlyOneSendPerInstance ==
    fn = "condor_status"
    => /\ NeverRepeated
       /\ (pc = "loop" => \A i \in Listed : Sends(i) = 1)

\* C3, amended: at most one send_command and at most one get_command_invocation per
\* listed instance, the fetch after the send and its delay, nothing repeated, none for
\* an unlisted instance; when condor_status returns, an instance has exactly one
\* send_command if its management client could be created and none otherwise.
C3_AtMostOneSendPerInstance ==
    fn = "condor_status"
    => /\ NeverRepeated
       /\ (pc = "loop" => \A i \in Listed : Sends(i) = IF SsmClientCreated(i) THEN 1 ELSE 0)

\* C3 witness: condor_status has returned after two listed instances, each with one
\* send and one fetch.
C3_Witness ==
    /\ fn = "condor_status" /\ pc = "loop" /\ Len(ids) = 2
    /\ \A i \in Listed : Sends(i) = 1 /\ Fetches(i) = 1

\* The instances whose command was sent and accepted and whose result has not been
\* asked for yet.
Awaiting ==
    {i \in InstanceIds :
        \E p \in Pos :
            /\ IsApi(trace[p]) /\ trace[p].what = "send_command"
            /\ trace[p].arg = i /\ trace[p].exc = NoExc
            /\ ~\E q \in Pos : q > p /\ IsApi(trace[q])
                    /\ trace[q].what = "get_command_invocation" /\ trace[q].arg = i}

\* The handling of instance i ended before position p of the trace: its result was
\* fetched, or the error of its client, send or fetch was caught.
EndedBefore(i, p) ==
    \E q \in Pos :
        /\ q < p /\ trace[q].arg = i
        /\ \/ IsApi(trace[q]) /\ trace[q].what = "get_command_invocation"
           \/ IsApi(trace[q]) /\ trace[q].what = "send_command" /\ trace[q].exc # NoExc
           \/ trace[q].kind = "client" /\ trace[q].what = "ssm" /\ trace[q].exc # NoExc

\* C4: instances are handled one after the other in listing order: a send_command is
\* issued only when the handling of every earlier listed instance has ended, and at
\* most one command is awaiting its fetch at any time.
C4_StrictlySequential ==
    fn = "condor_status"
    => /\ Cardinality(Awaiting) <= 1
       /\ \A p \in Pos :
            IsApi(trace[p]) /\ trace[p].what = "send_command"
            => \E k \in 1..Len(ids) :
                  /\ ids[k] = trace[p].arg
                  /\ \A j \in 1..(k - 1) : EndedBefore(ids[j], p)

\* C4 witness: the second listed instance's command is awaiting its fetch after the
\* first instance's command was sent and fetched.
C4_Witness ==
    /\ pc = "c_sleep" /\ idx = 2
    /\ Sends(ids[1]) = 1 /\ Fetches(ids[1]) = 1
    /\ Awaiting = {ids[2]}

\* C5: when creating the EC2 client at startup fails with a missing-credentials or
\* partial-credentials error, the process has exited with status 1 and never showed
\* the menu, read an input or made an API call.
C5_CredentialFailureExits ==
    Len(trace) > 0 /\ trace[1].kind = "client" /\ trace[1].exc \in CredentialErrors
    => /\ pc = "exited"
       /\ exitCode = 1
       /\ \A p \in Pos : /\ trace[p].kind \notin {"input", "api"}
                         /\ ~(trace[p].kind = "print" /\ trace[p].what = "menu")

\* C5 witness: startup failed with a partial-credentials error and the process exited.
C5_Witness ==
    /\ pc = "exited"
    /\ trace[1].kind = "client" /\ trace[1].exc = "PartialCredentialsError"

\* C6, as stated: every pass of the menu loop issues at most one API call.
C6_AtMostOneCall == Len(ApiCalls) <= 1

\* C6, amended: a pass for any choice other than 9 issues at most one API call; a pass
\* for choice 9 issues at most the listing call plus two calls (one send_command, one
\* get_command_invocation) per listed instance.
C6_CallsPerChoice ==
    IF fn = "condor_status"
    THEN Len(ApiCalls) <= 1 + 2 * Len(ids)
    ELSE Len(ApiCalls) <= 1

\* C6 witness: a pass for choice 9 over two instances has issued five API calls.
C6_Witness ==
    /\ pc = "loop" /\ choice = 9 /\ Len(ids) = 2
    /\ Len(ApiCalls) = 5

\* a is s with its surrounding whitespace removed: a neither starts nor ends with
\* whitespace, and s is a between two runs of whitespace.
IsTrimmed(s, a) ==
    /\ (Len(a) > 0 => a[1] \notin Whitespace /\ a[Len(a)] \notin Whitespace)
    /\ \E lead \in 0..Len(s) :
          /\ lead + Len(a) <= Len(s)
          /\ \A i \in 1..Len(s) :
                IF i > lead /\ i <= lead + Len(a)
                THEN s[i] = a[i - lead]
                ELSE s[i] \in Whitespace

OperationOf(c) ==
    CASE c = 3 -> "start_instances"
      [] c = 5 -> "stop_instances"
      [] c = 7 -> "reboot_instances"
      [] c = 6 -> "run_instances"

\* C7: for choices 3, 5, 7 and 6, when the pass is over the operation matching the
\* choice was invoked exactly once, with the entered string without its surrounding
\* whitespace as the identifier; when nothing but whitespace was entered no call was
\* made and the loop is back at the menu. Before the handler runs no call is made.
C7_MatchingOperationOnce ==
    choice \in {3, 5, 6, 7}
    => /\ (pc \in {"ask", "call"} => Len(ApiCalls) = 0)
       /\ (pc = "loop" =>
             IF IsTrimmed(entered, <<>>)
             THEN Len(ApiCalls) = 0
             ELSE /\ Len(ApiCalls) = 1
                  /\ ApiCalls[1].what = OperationOf(choice)
                  /\ IsTrimmed(entered, ApiCalls[1].arg))
       /\ pc \in {"ask", "call", "loop"}

\* C7 witness: choice 6 with " a " entered has called run_instances once with "a".
C7_Witness ==
    /\ pc = "loop" /\ choice = 6 /\ entered = <<" ", "a", " ">>
    /\ Len(ApiCalls) = 1 /\ ApiCalls[1].what = "run_instances" /\ ApiCalls[1].arg = <<"a">>

\* The line writes the integer 99 in decimal digits.
Is99(l) ==
    /\ Len(l) >= 2 /\ l[Len(l)] = "9" /\ l[Len(l) - 1] = "9"
    /\ \A i \in 1..(Len(l) - 2) : l[i] = "0"

FailsDigitCheck(l) == Len(l) = 0 \/ \E i \in 1..Len(l) : l[i] \notin DigitChars

IsDecimal(l) == Len(l) > 0 /\ \A i \in 1..Len(l) : l[i] \in DecimalDigits

\* C8(a): the loop ends, printing the goodbye message, exactly for a line that is 99.
C8_QuitsOnlyOn99 ==
    HasRead => ((pc = "done" /\ Printed("goodbye", NoArg)) <=> Is99(line))

\* C8(b): a line failing the digit check, or an integer outside 1..9 and 99, makes no
\* API call, prints an invalid-input message and returns to the prompt.
C8_InvalidLinesRejected ==
    HasRead /\ (FailsDigitCheck(line)
                  \/ (IsDecimal(line) /\ DecimalValue(line) \notin (1..9) \cup {99}))
    => /\ Len(ApiCalls) = 0
       /\ pc = "loop"
       /\ (Printed("invalid_input", NoArg) \/ Printed("invalid_choice", NoArg))

\* C8(c): no line that passes the digit check fails while being converted to an integer.
C8_ConversionNeverFails ==
    \A p \in Pos : ~(trace[p].kind = "raise" /\ trace[p].what = "int")

\* C8: every line entered at the menu prompt ends the loop exactly when it is 99, is
\* rejected without an API call when it is no valid choice, and never makes the
\* conversion to an integer fail.
C8_MenuInput == C8_QuitsOnlyOn99 /\ C8_InvalidLinesRejected /\ C8_ConversionNeverFails

SendAttempted(i) == Sends(i) > 0
FailurePrinted(i) == Printed("failed_to_retrieve", i) \/ Printed("error_processing", i)
StatusPrinted(i) == Printed("condor_status_for", i)

\* C9: once the listing has succeeded, when condor_status is over (it returned, or the
\* process ended in it) every listed instance had a send_command attempted or a
\* failure message printed for it.
C9_EveryInstanceHandled ==
    ListingSucceeded /\ pc \in {"loop", "crashed", "exited", "done"}
    => \A i \in Listed : SendAttempted(i) \/ FailurePrinted(i)

\* C9 witness: the first instance's management client could not be created and the
\* second instance still had its command sent.
C9_Witness ==
    /\ ListingSucceeded /\ pc = "loop" /\ Len(ids) = 2
    /\ Printed("error_processing", ids[1]) /\ ~SendAttempted(ids[1])
    /\ SendAttempted(ids[2])

\* The fetch for instance i answered, with this standard output.
Fetched(i, content) ==
    \E p \in Pos : /\ IsApi(trace[p]) /\ trace[p].what = "get_command_invocation"
                   /\ trace[p].arg = i /\ trace[p].exc = NoExc
                   /\ trace[p].resp.StandardOutputContent = content

Raised(op, i) ==
    \E p \in Pos : IsApi(trace[p]) /\ trace[p].what = op /\ trace[p].arg = i
                     /\ trace[p].exc # NoExc

PrintedOutput(i, content) ==
    \E p \in Pos : /\ trace[p].kind = "print" /\ trace[p].what = "output" /\ trace[p].arg = i
                   /\ trace[p].resp.StandardOutputContent = content

\* C10: every instance whose handling is over has exactly one of the two reports, its
\* status output or a failure message; the status output is printed exactly when the
\* fetched standard output is non-empty, and it is what was fetched; an empty fetched
\* output, a send that raised and a fetch that raised are all reported as a failure to
\* retrieve the status.
C10_StatusXorFailure ==
    fn = "condor_status"
    => \A k \in 1..Len(ids) :
          LET i == ids[k] IN
          /\ ~(StatusPrinted(i) /\ FailurePrinted(i))
          /\ (k < idx => StatusPrinted(i) \/ FailurePrinted(i))
          /\ (StatusPrinted(i) =>
                \E c \in Outputs : Len(c) > 0 /\ Fetched(i, c) /\ PrintedOutput(i, c))
          /\ (k < idx /\ (Fetched(i, <<>>) \/ Raised("send_command", i)
                            \/ Raised("get_command_invocation", i))
                => Printed("failed_to_retrieve", i))
          /\ (k < idx /\ (\E c \in Outputs : Len(c) > 0 /\ Fetched(i, c)) => StatusPrinted(i))

\* C10 witness: of two handled instances one had its non-empty output printed and the
\* other, whose fetched output was empty, was reported as a failure.
C10_Witness ==
    /\ fn = "condor_status" /\ pc = "loop" /\ Len(ids) = 2
    /\ StatusPrinted(ids[1]) /\ Fetched(ids[1], <<"o">>)
    /\ Fetched(ids[2], <<>>) /\ Printed("failed_to_retrieve", ids[2])

====
